---- MODULE Spec2Model ----
(***************************************************************************)
(* Retrieval engine of the NASA bioscience assistants: NASARAGSystem       *)
(* (nasa-ai-model/rag_system.py), HybridNASAAI (hybrid_nasa_ai.py), the    *)
(* FAISS chatbots (AI/nasa_chatbot.py, dynamic_chatbot.py,                 *)
(* simple_chatbot.py) and combine_chunks (cursor-back/main.py).            *)
(*                                                                         *)
(* Numbers.  A vector is a tuple of integers holding ten times its         *)
(* coordinates, so a unit vector has norm 10 and the inner product of two  *)
(* vectors is the similarity in hundredths (0.3 is 30).  Text is kept by   *)
(* name; where the code measures a string, the model uses its length.      *)
(***************************************************************************)
EXTENDS Integers, Sequences, FiniteSets, TLC

None == "None"

Missing == "Missing"

\* ------------------------------------------------------------------ bounds
MaxChunks == 3
MaxTopK == 4

\* --------------------------------------------------- texts and embeddings
Texts == {"bone", "plant", "solar"}
Queries == {"bones?", "dust?", ""}

\* The sentence-embedding models: all-MiniLM-L6-v2 ends in a Normalize layer
\* (unit vectors); "raw" has the same dimension and no Normalize layer;
\* "wide" has another dimension.
Models == {"all-MiniLM-L6-v2", "raw", "wide"}

UnitVec(t) ==
    CASE t = "bone"   -> <<10, 0>>
      [] t = "plant"  -> <<0, 10>>
      [] t = "solar"  -> <<-10, 0>>
      [] t = "bones?" -> <<8, 6>>
      [] t = "dust?"  -> <<0, -10>>
      [] t = "edge?"  -> <<3, 10>>
      [] OTHER        -> <<-8, 6>>

\* SentenceTransformer.encode of one string.
Encode(m, t) ==
    CASE m = "all-MiniLM-L6-v2" -> UnitVec(t)
      [] m = "raw"  -> <<2 * UnitVec(t)[1], 2 * UnitVec(t)[2]>>
      [] OTHER      -> <<UnitVec(t)[2], UnitVec(t)[1], 0>>

RECURSIVE SumSeq(_)
SumSeq(s) == IF s = <<>> THEN 0 ELSE Head(s) + SumSeq(Tail(s))

Dot(a, b) == SumSeq([i \in 1..Len(a) |-> a[i] * b[i]])

SqDist(a, b) == SumSeq([i \in 1..Len(a) |-> (a[i] - b[i]) * (a[i] - b[i])])

Norm(v) == CHOOSE n \in 0..40 : n * n = Dot(v, v)

\* faiss.normalize_L2 on one row: scaled to unit length, a zero row is left.
NormalizeL2(v) ==
    IF Norm(v) = 0 THEN v ELSE [i \in 1..Len(v) |-> (v[i] * 10) \div Norm(v)]

\* model.encode(texts): one row per text; an empty list gives an array of
\* shape (0,), which has no second axis.
EncodeAll(m, texts) == [i \in 1..Len(texts) |-> Encode(m, texts[i])]

\* An attribute holding an array (its rows), or None.
NoArray == [is |-> None, rows |-> <<>>]

Array(rows) == [is |-> "ndarray", rows |-> rows]

\* --------------------------------------------------------------- FAISS
\* An index is [type, d, xb]: xb the stored rows, in the order they were added.
FltMax == 1000000

\* No index object (the attribute is None).
NoIndex == [type |-> None, d |-> 0, xb |-> <<>>]

NewIndex(type, d) == [type |-> type, d |-> d, xb |-> <<>>]

IndexAdd(ix, rows) == [ix EXCEPT !.xb = @ \o rows]

NTotal(ix) == Len(ix.xb)

\* The similarity (IndexFlatIP) or squared distance (IndexFlatL2) of row i.
RowScore(ix, q, i) ==
    IF ix.type = "IndexFlatIP" THEN Dot(ix.xb[i], q) ELSE SqDist(ix.xb[i], q)

\* Whether row i comes before row j in the result: the better score first
\* (highest inner product, smallest distance); equal scores in the order the
\* build's heap leaves them.
Before(ix, q, ties, i, j) ==
    LET si == RowScore(ix, q, i)
        sj == RowScore(ix, q, j)
    IN IF si # sj
       THEN (IF ix.type = "IndexFlatIP" THEN si > sj ELSE si < sj)
       ELSE (IF ties = "low_id_first" THEN i < j ELSE i > j)

RECURSIVE Ranked(_, _, _, _, _)
Ranked(ix, q, ties, rows, k) ==
    IF k = 0 \/ rows = {} THEN <<>>
    ELSE LET b == CHOOSE i \in rows :
                    \A j \in rows \ {i} : Before(ix, q, ties, i, j)
         IN <<[score |-> RowScore(ix, q, b), idx |-> b - 1]>>
            \o Ranked(ix, q, ties, rows \ {b}, k - 1)

\* The placeholder of a result slot with no hit: label -1 and the worst score.
NoHit(ix) ==
    [score |-> IF ix.type = "IndexFlatIP" THEN -FltMax ELSE FltMax, idx |-> -1]

\* index.search(x, k) for one query row: exactly k (score, idx) pairs, the
\* hits best first and then placeholders.  idx is the 0-based row label.
IndexSearch(ix, q, ties, k) ==
    LET hits == Ranked(ix, q, ties, 1..NTotal(ix), k)
    IN hits \o [i \in 1..(k - Len(hits)) |-> NoHit(ix)]

\* faiss.write_index / faiss.read_index: the file holds the index kind, d,
\* ntotal and the rows as one flat array of floats.
RECURSIVE Flatten(_)
Flatten(rows) == IF rows = <<>> THEN <<>> ELSE Head(rows) \o Flatten(Tail(rows))

Reshape(flat, n, d) ==
    [i \in 1..n |-> [j \in 1..d |-> flat[(i - 1) * d + j]]]

NoIndexFile == [fourcc |-> Missing, d |-> 0, ntotal |-> 0, codes |-> <<>>]

WriteIndex(ix) ==
    [fourcc |-> IF ix.type = "IndexFlatIP" THEN "IxFI" ELSE "IxF2",
     d |-> ix.d, ntotal |-> NTotal(ix), codes |-> Flatten(ix.xb)]

ReadIndex(f) ==
    [type |-> IF f.fourcc = "IxFI" THEN "IndexFlatIP" ELSE "IndexFlatL2",
     d |-> f.d, xb |-> Reshape(f.codes, f.ntotal, f.d)]

\* Python's list[idx] for idx in -len..len-1 (a negative idx counts from the end).
PyInRange(s, idx) == -Len(s) <= idx /\ idx < Len(s)

PyItem(s, idx) == IF idx >= 0 THEN s[idx + 1] ELSE s[Len(s) + idx + 1]

\* ------------------------------------------------------ the corpus source
\* A file that is not there, and a papers file holding the given records.
NoFile == [exists |-> FALSE, lines |-> <<>>]

FileOf(lines) == [exists |-> TRUE, lines |-> lines]

\* Lines of a corpus file that are no well-formed record: one that is not
\* JSON, and a JSON record without the text field.
BadRecords == {"garbled", "untexted"}

WellFormed(lines) == SelectSeq(lines, LAMBDA l : l \notin BadRecords)

\* A chunk as data_loader.load_papers_data builds it from one JSONL record.
PaperChunk(t) ==
    [text |-> t, source |-> "papers",
     section |-> IF t = "bone" THEN "Results" ELSE "Unknown"]

\* The corpus files the runs are given (the papers file, record by record).
AllCorpora ==
    {<<>>, <<"plant", "bone">>, <<"bone", "plant", "solar">>,
     <<"solar", "bone", "bone">>, <<"plant", "solar", "bone", "plant">>,
     <<"bone", "bone", "plant", "solar", "plant">>,
     <<"bone", "plant", "bone", "plant", "bone", "plant">>,
     <<"plant", "bone", "plant", "bone", "plant", "bone", "plant">>}

Corpora == {FileOf(c) : c \in {c \in AllCorpora : Len(c) <= MaxChunks}} \cup {NoFile}

\* Corpus files with one malformed record among well-formed ones.
DirtyCorpora ==
    {FileOf(<<"bone", "garbled", "plant">>), FileOf(<<"untexted", "bone">>),
     FileOf(<<"blank", "bone">>)}

\* The corpus files a program is run on: the loaders (load_data, the
\* chatbots' start-up) also meet the malformed records.
CorporaFor(p) ==
    IF p \in {"persist", "hybrid_nasa_ai", "rebuild", "inference"} THEN Corpora
    ELSE Corpora \cup DirtyCorpora

\* NASADataLoader: load_papers_data, load_taskbook_data, combine_datasets.  A
\* missing file is reported on the console and gives no chunks; a line that
\* does not parse is reported and skipped, a record without text is skipped.
LoadCorpus(file) ==
    IF ~file.exists THEN <<>>
    ELSE [i \in 1..Len(WellFormed(file.lines)) |->
            PaperChunk(WellFormed(file.lines)[i])]

ChunkTexts(chunks) == [i \in 1..Len(chunks) |-> chunks[i].text]

\* len() of the strings the context assembler measures.
StrLen(s) ==
    CASE s = "bone"    -> 39
      [] s = "plant"   -> 42
      [] s = "solar"   -> 45
      [] s = "blank"   -> 60
      [] s = "papers"  -> 6
      [] s = "Results" -> 7
      [] s = "Unknown" -> 7
      [] OTHER         -> 0

\* len(s.strip()): "blank" is a text of spaces and line ends only.
TrimmedLen(s) == IF s = "blank" THEN 0 ELSE StrLen(s)

\* ------------------------------------------------------------ NASARAGSystem
VARIABLES
    prog,        \* the program this run executes
    faiss,       \* the FAISS build: [ties, k0]
    config,      \* config.yaml's rag section
    papersFile,  \* the corpus source on disk
    edits,       \* how often the corpus source was rewritten
    rag,         \* the NASARAGSystem object: embedding_model, index, chunks, embeddings
    ragDir,      \* ./rag_system: embeddings.npy, faiss_index.bin, chunks.pkl, embedding_model
    bot,         \* a FAISS chatbot of AI/: model, index, chunks, embeddings
    aiDir,       \* its working directory: embeddings.pkl, faiss_index.bin
    hyb,         \* the HybridNASAAI object: embedding_model, faiss_index, chunks
    saved,       \* the in-memory system the last complete save_system wrote
    rebuild,     \* the setup() calls in progress: [pc, live]
    app,         \* the object of the application that runs (NASAInference, ...)
    out          \* what the last call returned or raised

vars == <<prog, faiss, config, papersFile, edits, rag, ragDir, bot, aiDir, hyb,
          saved, rebuild, app, out>>

MaxEdits == 1
CfgTopK == 2

\* The two FAISS builds: how equal scores are ordered, and what search does
\* with k = 0 (the wrapper's "assert k > 0", or k empty columns before it).
FaissBuilds ==
    {[ties |-> "low_id_first", k0 |-> "assert"],
     [ties |-> "high_id_first", k0 |-> "empty"]}

Config(index_type, embedding_model) ==
    [index_type |-> index_type, similarity_threshold |-> 30,
     top_k_results |-> CfgTopK, embedding_model |-> embedding_model]

Configs ==
    {Config("IndexFlatIP", "all-MiniLM-L6-v2"), Config("IndexFlatIP", "raw"),
     Config("IndexFlatL2", "all-MiniLM-L6-v2")}

\* NASARAGSystem.__init__
NewRag == [embedding_model |-> None, index |-> NoIndex, chunks |-> <<>>,
           embeddings |-> NoArray]

NoNpy == [kind |-> Missing, shape |-> <<>>, data |-> <<>>]

NoPickle == [exists |-> FALSE, chunks |-> <<>>]

EmptyDir == [embeddings |-> NoNpy, index |-> NoIndexFile, chunks |-> NoPickle,
             model |-> Missing]

Quiet == [op |-> "none"]

\* load_embedding_model
LoadEmbeddingModel(sys, cfg) == [sys EXCEPT !.embedding_model = cfg.embedding_model]

\* load_data
LoadData(sys, file) == [sys EXCEPT !.chunks = LoadCorpus(file)]

\* generate_embeddings
GenerateEmbeddings(sys, cfg) ==
    LET s1 == IF sys.embedding_model = None THEN LoadEmbeddingModel(sys, cfg) ELSE sys
    IN [s1 EXCEPT !.embeddings =
               Array(EncodeAll(s1.embedding_model, ChunkTexts(s1.chunks)))]

\* The rows create_faiss_index hands to index.add: normalize_L2 is applied to
\* the copy astype returns, self.embeddings itself is added.
AddedRows(embeddings) == embeddings.rows

\* create_faiss_index: [sys, err].  embeddings.shape[1] of an array without
\* rows raises IndexError before the index is replaced.
CreateFaissIndex(sys, cfg) ==
    LET s1 == IF sys.embeddings = NoArray THEN GenerateEmbeddings(sys, cfg) ELSE sys
    IN IF Len(s1.embeddings.rows) = 0
       THEN [sys |-> s1, err |-> "IndexError"]
       ELSE [sys |-> [s1 EXCEPT !.index =
                         IndexAdd(NewIndex(cfg.index_type, Len(s1.embeddings.rows[1])),
                                  AddedRows(s1.embeddings))],
             err |-> "none"]

\* index.add of create_faiss_index on the object as it is now.
IndexAddRows(sys) ==
    [sys EXCEPT !.index = IndexAdd(sys.index, AddedRows(sys.embeddings))]

\* setup
SetupRag(sys, cfg, file) ==
    CreateFaissIndex(
        GenerateEmbeddings(LoadData(LoadEmbeddingModel(sys, cfg), file), cfg), cfg)

Raised(e) == [err |-> e, results |-> <<>>]

\* The query row search hands to index.search: normalize_L2 is applied to the
\* copy astype returns, the encoded row itself is searched.
QueryRow(v) == v

\* rag_system.py 131-142: one result per (score, idx) pair with idx < len(chunks).
RECURSIVE RagFormat(_, _)
RagFormat(hits, chunks) ==
    IF hits = <<>> THEN <<>>
    ELSE (IF Head(hits).idx < Len(chunks)
          THEN LET chunk == PyItem(chunks, Head(hits).idx)
               IN <<[text |-> chunk.text, score |-> Head(hits).score,
                     section |-> chunk.section, source |-> chunk.source]>>
          ELSE <<>>)
         \o RagFormat(Tail(hits), chunks)

\* chunks[idx] raises IndexError: idx passed the test and is no position of the list.
FormatRaises(hits, chunks) ==
    \E i \in 1..Len(hits) :
        hits[i].idx < Len(chunks) /\ ~PyInRange(chunks, hits[i].idx)

\* The results search keeps: those at or above the threshold.
AboveThreshold(results, threshold) ==
    SelectSeq(results, LAMBDA r : r.score >= threshold)

\* An optional argument: left out, or given.
Default == <<>>

Given(v) == <<v>>

\* NASARAGSystem.search(query, top_k): [err, results].
RagSearch(sys, cfg, build, query, top_k) ==
    IF sys.index = NoIndex \/ sys.embedding_model = None THEN Raised("ValueError")
    ELSE LET Formatted(hits) ==
                 IF FormatRaises(hits, sys.chunks) THEN Raised("IndexError")
                 ELSE [err |-> "none",
                       results |-> AboveThreshold(RagFormat(hits, sys.chunks),
                                                  cfg.similarity_threshold)]
             Searched(k, q) ==
                 IF Len(q) # sys.index.d \/ (k = 0 /\ build.k0 = "assert")
                 THEN Raised("AssertionError")
                 ELSE Formatted(IndexSearch(sys.index, q, build.ties, k))
         IN Searched(IF top_k = Default THEN cfg.top_k_results ELSE top_k[1],
                     QueryRow(Encode(sys.embedding_model, query)))

\* len(str(n)) for the source numbers that occur.
Digits(n) == IF n < 10 THEN 1 ELSE 2

\* len(f"[Source {i+1} - {source} - {section}]: {text}"), i the 0-based position.
PartLen(i, r) ==
    8 + Digits(i + 1) + 3 + StrLen(r.source) + 3 + StrLen(r.section) + 3
      + StrLen(r.text)

\* get_context's loop: how many leading parts are appended before the break.
RECURSIVE Appended(_, _, _, _)
Appended(lens, i, current_length, max_length) ==
    IF i > Len(lens) \/ current_length + lens[i] > max_length THEN i - 1
    ELSE Appended(lens, i + 1, current_length + lens[i], max_length)

\* len(sep.join(parts)) for parts of the given lengths.
JoinLen(lens, sepLen) ==
    IF lens = <<>> THEN 0 ELSE SumSeq(lens) + sepLen * (Len(lens) - 1)

\* NASARAGSystem.get_context(query, max_length): [err, parts, length]; parts are
\* the results whose part is in the string, length is len() of the string.
GetContext(sys, cfg, build, query, max_length) ==
    LET Joined(found, lens, n) ==
            [err |-> "none", parts |-> SubSeq(found.results, 1, n),
             length |-> JoinLen(SubSeq(lens, 1, n), 2)]
        Packed(found, lens) == Joined(found, lens, Appended(lens, 1, 0, max_length))
        Context(found) ==
            IF found.err # "none" THEN [err |-> found.err, parts |-> <<>>, length |-> 0]
            ELSE Packed(found, [i \in 1..Len(found.results) |->
                                   PartLen(i - 1, found.results[i])])
    IN Context(RagSearch(sys, cfg, build, query, Default))

\* np.save / np.load: shape and flat data; None is stored as an object array,
\* which np.load refuses.
NpSave(a) ==
    IF a = NoArray THEN [kind |-> "object", shape |-> <<>>, data |-> <<>>]
    ELSE [kind |-> "float32",
          shape |-> IF Len(a.rows) = 0 THEN <<0>> ELSE <<Len(a.rows), Len(a.rows[1])>>,
          data |-> Flatten(a.rows)]

NpLoad(f) ==
    Array(IF Len(f.shape) = 1 THEN <<>> ELSE Reshape(f.data, f.shape[1], f.shape[2]))

\* How many of the four artifacts save_system writes when the process may stop
\* after `stop` of them: write_index raises without an index, and
\* embedding_model.save without a model.
SaveWritten(sys, stop) ==
    LET upto == IF sys.index = NoIndex THEN 1
                ELSE IF sys.embedding_model = None THEN 3 ELSE 4
    IN IF stop < upto THEN stop ELSE upto

\* save_system: the directory after it.
SaveSystem(sys, dir, stop) ==
    LET n == SaveWritten(sys, stop)
    IN [embeddings |-> IF n >= 1 THEN NpSave(sys.embeddings) ELSE dir.embeddings,
        index      |-> IF n >= 2 THEN WriteIndex(sys.index) ELSE dir.index,
        chunks     |-> IF n >= 3 THEN [exists |-> TRUE, chunks |-> sys.chunks]
                       ELSE dir.chunks,
        model      |-> IF n >= 4 THEN sys.embedding_model ELSE dir.model]

\* load_system without the read of chunks.pkl.
LoadSystem_KeepsChunks(sys, dir) ==
    IF dir.embeddings.kind = Missing THEN [sys |-> sys, err |-> "FileNotFoundError"]
    ELSE IF dir.embeddings.kind = "object" THEN [sys |-> sys, err |-> "ValueError"]
    ELSE LET s1 == [sys EXCEPT !.embeddings = NpLoad(dir.embeddings)]
    IN IF dir.index = NoIndexFile THEN [sys |-> s1, err |-> "RuntimeError"]
    ELSE LET s2 == [s1 EXCEPT !.index = ReadIndex(dir.index)]
    IN IF dir.model = Missing THEN [sys |-> s2, err |-> "OSError"]
    ELSE [sys |-> [s2 EXCEPT !.embedding_model = dir.model], err |-> "none"]

\* load_system: [sys, err]; the fields read before a failing read stay set.
LoadSystem(sys, dir) ==
    IF dir.embeddings.kind = Missing THEN [sys |-> sys, err |-> "FileNotFoundError"]
    ELSE IF dir.embeddings.kind = "object" THEN [sys |-> sys, err |-> "ValueError"]
    ELSE LET s1 == [sys EXCEPT !.embeddings = NpLoad(dir.embeddings)]
    IN IF dir.index = NoIndexFile THEN [sys |-> s1, err |-> "RuntimeError"]
    ELSE LET s2 == [s1 EXCEPT !.index = ReadIndex(dir.index)]
    IN IF ~dir.chunks.exists THEN [sys |-> s2, err |-> "FileNotFoundError"]
    ELSE LET s3 == [s2 EXCEPT !.chunks = dir.chunks.chunks]
    IN IF dir.model = Missing THEN [sys |-> s3, err |-> "OSError"]
    ELSE [sys |-> [s3 EXCEPT !.embedding_model = dir.model], err |-> "none"]

\* ------------------------------------------------- the chatbots of AI/
\* nasa_chatbot.NASAChatbot, and the module globals of dynamic_chatbot and
\* simple_chatbot, which start the same way.
Chatbots == {"nasa_chatbot", "dynamic_chatbot", "simple_chatbot"}

NewBot == [started |-> FALSE, model |-> None, index |-> NoIndex, chunks |-> <<>>,
           embeddings |-> NoArray]

EmptyAiDir == [embeddings |-> NoArray, index |-> NoIndexFile]

\* The chunk list read from the data file: one entry per record that has the
\* text field.
BotChunks(file) ==
    [i \in 1..Len(WellFormed(file.lines)) |-> [chunk |-> WellFormed(file.lines)[i]]]

\* What reading the data file raises.  dynamic_chatbot parses line by line
\* and subscripts the text field, both outside any try; nasa_chatbot and
\* simple_chatbot parse the file as one JSON document and skip an item
\* without the field.
BotLoadError(who, file) ==
    LET bad == SelectSeq(file.lines, LAMBDA l : l \in BadRecords)
    IN IF who = "dynamic_chatbot"
       THEN (IF bad = <<>> THEN "none"
             ELSE IF bad[1] = "garbled" THEN "JSONDecodeError" ELSE "KeyError")
       ELSE (IF \E i \in 1..Len(bad) : bad[i] = "garbled"
             THEN "JSONDecodeError" ELSE "none")

NormalizeRows(rows) == [i \in 1..Len(rows) |-> NormalizeL2(rows[i])]

\* Start-up after the data file was read: embeddings and index are read from
\* the files that exist and created (and written) otherwise.  [bot, dir, err].
BotStartLoaded(who, chunks, dir) ==
    LET cached == dir.embeddings # NoArray
        model1 == IF cached THEN None ELSE "all-MiniLM-L6-v2"
        emb1 == IF cached THEN dir.embeddings
                ELSE Array(EncodeAll(model1, [i \in 1..Len(chunks) |-> chunks[i].chunk]))
        dir1 == [dir EXCEPT !.embeddings = emb1]
        \* the model for search: dynamic_chatbot.py:78, simple_chatbot.py:75
        model2 == IF who = "nasa_chatbot" THEN model1 ELSE "all-MiniLM-L6-v2"
    IN IF dir1.index # NoIndexFile
       THEN [bot |-> [started |-> TRUE, model |-> model2,
                      index |-> ReadIndex(dir1.index), chunks |-> chunks,
                      embeddings |-> emb1],
             dir |-> dir1, err |-> "none"]
       ELSE IF Len(emb1.rows) = 0
       THEN [bot |-> NewBot, dir |-> dir1, err |-> "IndexError"]
       ELSE LET unit == NormalizeRows(emb1.rows)
                ix == IndexAdd(NewIndex("IndexFlatIP", Len(emb1.rows[1])), unit)
            IN [bot |-> [started |-> TRUE, model |-> model2, index |-> ix,
                         chunks |-> chunks, embeddings |-> Array(unit)],
                dir |-> [dir1 EXCEPT !.index = WriteIndex(ix)], err |-> "none"]

\* NASAChatbot.__init__ / the module start-up: a missing data file ends it.
BotStart(who, file, dir) ==
    IF ~file.exists THEN [bot |-> NewBot, dir |-> dir, err |-> "FileNotFoundError"]
    ELSE IF BotLoadError(who, file) # "none"
    THEN [bot |-> NewBot, dir |-> dir, err |-> BotLoadError(who, file)]
    ELSE BotStartLoaded(who, BotChunks(file), dir)

\* The loop of NASAChatbot.search and search_chunks: rank is the position of
\* the (score, idx) pair in the raw hits.
RECURSIVE BotFormat(_, _, _)
BotFormat(hits, i, chunks) ==
    IF i > Len(hits) THEN <<>>
    ELSE (IF hits[i].idx < Len(chunks)
          THEN <<[chunk |-> PyItem(chunks, hits[i].idx).chunk,
                  score |-> hits[i].score, rank |-> i]>>
          ELSE <<>>)
         \o BotFormat(hits, i + 1, chunks)

\* NASAChatbot.search / search_chunks: [err, results].
BotSearch(who, b, build, query, top_k) ==
    IF who = "nasa_chatbot" /\ (b.model = None \/ b.index = NoIndex)
    THEN Raised("ValueError")
    ELSE IF b.model = None THEN Raised("NameError")
    ELSE LET q == NormalizeL2(Encode(b.model, query))
         IN IF Len(q) # b.index.d \/ (top_k = 0 /\ build.k0 = "assert")
            THEN Raised("AssertionError")
            ELSE LET hits == IndexSearch(b.index, q, build.ties, top_k)
                 IN IF FormatRaises(hits, b.chunks) THEN Raised("IndexError")
                    ELSE [err |-> "none", results |-> BotFormat(hits, 1, b.chunks)]

\* ------------------------------------------------------------ HybridNASAAI
MaxHybridChunks == 6

NewHybrid == [loaded |-> FALSE, embedding_model |-> None, faiss_index |-> NoIndex,
              chunks |-> <<>>]

\* load_components: [hyb, err].
LoadComponents(dir) ==
    IF dir.index = NoIndexFile THEN [hyb |-> NewHybrid, err |-> "RuntimeError"]
    ELSE IF ~dir.chunks.exists THEN [hyb |-> NewHybrid, err |-> "FileNotFoundError"]
    ELSE [hyb |-> [loaded |-> TRUE, embedding_model |-> "all-MiniLM-L6-v2",
                   faiss_index |-> ReadIndex(dir.index),
                   chunks |-> dir.chunks.chunks],
          err |-> "none"]

\* search_context's test of one (score, idx) pair: idx != -1 and score > 0.3.
HybridKeeps(hit) == hit.idx # -1 /\ hit.score > 30

RECURSIVE HybridFormat(_, _)
HybridFormat(hits, chunks) ==
    IF hits = <<>> THEN <<>>
    ELSE (IF HybridKeeps(Head(hits))
          THEN <<[text |-> PyItem(chunks, Head(hits).idx).text,
                  section |-> PyItem(chunks, Head(hits).idx).section,
                  score |-> Head(hits).score]>>
          ELSE <<>>)
         \o HybridFormat(Tail(hits), chunks)

\* search_context(query, top_k): [err, results].
SearchContext(h, build, query, top_k) ==
    LET Formatted(hits) ==
            IF \E i \in 1..Len(hits) :
                  HybridKeeps(hits[i]) /\ ~PyInRange(h.chunks, hits[i].idx)
            THEN Raised("IndexError")
            ELSE [err |-> "none", results |-> HybridFormat(hits, h.chunks)]
        Searched(q) ==
            IF Len(q) # h.faiss_index.d \/ (top_k = 0 /\ build.k0 = "assert")
            THEN Raised("AssertionError")
            ELSE Formatted(IndexSearch(h.faiss_index, q, build.ties, top_k))
    IN Searched(Encode(h.embedding_model, query))

\* top_k of the search in generate_response and of the search in chat.
AnswerTopK == 8

\* search_context's own default for top_k.
SourcesTopK_Default == 5

SourcesTopK == 8

\* chat(query): the search behind the answer, then the search behind the
\* sources line; an exception in either gives the error reply.
Chat(h, build, query) ==
    LET Reply(answer, sources) ==
            IF answer.err # "none"
            THEN [err |-> answer.err, answer |-> <<>>, sources |-> <<>>]
            ELSE [err |-> sources.err, answer |-> answer.results,
                  sources |-> sources.results]
    IN Reply(SearchContext(h, build, query, AnswerTopK),
             SearchContext(h, build, query, SourcesTopK))

\* The directories a HybridNASAAI may find: none, what save_system wrote for
\* a set-up system, and such a save a later save stopped partway over.
HybridCorpora ==
    {FileOf(c) : c \in {c \in AllCorpora : Len(c) <= MaxHybridChunks}}

SavedDirs ==
    {SaveSystem(SetupRag(NewRag, cfg, f).sys, EmptyDir, 4) :
        cfg \in Configs \cup {Config("IndexFlatIP", "wide")}, f \in {g \in HybridCorpora : Len(g.lines) > 0}}

HybridDirs ==
    {EmptyDir} \cup SavedDirs
    \cup {SaveSystem(SetupRag(NewRag, Config("IndexFlatIP", "all-MiniLM-L6-v2"), f).sys,
                     d, 2) :
            d \in SavedDirs, f \in {g \in Corpora : Len(g.lines) > 0}}

DefaultConfig == Config("IndexFlatIP", "all-MiniLM-L6-v2")

\* The questions put to chat: the queries, and one whose similarity to the
\* "bone" chunk is exactly 0.3 (the unit vector (0.3, 0.954) on the grid).
HybridQueries == Queries \cup {"edge?"}

\* ------------------------------------------- combine_chunks (cursor-back)
MaxCombine == 3

\* The chunk texts of a paper, by kind.
MainTexts == {"nav", "note", "abstract", "methods"}

\* len() of a chunk once lower-cased, the boilerplate patterns removed, runs
\* of whitespace collapsed and the ends stripped.
StrippedLen(t) ==
    CASE t = "nav"      -> 0
      [] t = "note"     -> 60
      [] t = "abstract" -> 120
      [] OTHER          -> 150

\* len(clean_chunk_text(text)): a text left shorter than 100 becomes "".
CleanChunkText(t) == IF StrippedLen(t) < 100 THEN 0 ELSE StrippedLen(t)

\* combine_chunks' loop: len(combined_text) and the positions appended.
RECURSIVE CombineLoop(_, _, _, _, _)
CombineLoop(chunks, i, combined, used, max_length) ==
    IF i > Len(chunks) THEN [len |-> combined, used |-> used]
    ELSE LET cleaned == CleanChunkText(chunks[i])
         IN IF cleaned < 50
            THEN CombineLoop(chunks, i + 1, combined, used, max_length)
            ELSE IF combined + cleaned + 1 <= max_length
            THEN CombineLoop(chunks, i + 1, combined + cleaned + 1,
                             Append(used, i), max_length)
            ELSE [len |-> combined, used |-> used]

\* combine_chunks(chunks, max_length): the length of the stripped result (the
\* trailing separator goes) and the positions of the chunks in it.
CombineChunks(chunks, max_length) ==
    LET r == CombineLoop(chunks, 1, 0, <<>>, max_length)
    IN [length |-> IF r.len = 0 THEN 0 ELSE r.len - 1, used |-> r.used]

RECURSIVE SeqsUpTo(_, _)
SeqsUpTo(S, n) ==
    IF n = 0 THEN {<<>>}
    ELSE LET shorter == SeqsUpTo(S, n - 1)
         IN shorter \cup {Append(q, e) : q \in shorter, e \in S}

MainBudgets == {0, 120, 121, 271, 272, 50000}

\* combine_chunks' default for max_length.
DefaultMaxLength == 50000

\* What a request to /api/paper-summaries carries, and the papers of
\* CHUNKS_DATA: the chunks of the one paper "paper", in file order.
Roles == {"scientist", "manager", "reviewer"}

Titles == {"", "paper", "absent"}

\* generate_paper_summary without the test of the combined text.
GeneratePaperSummary_NoEmptyCheck(role, title, data) ==
    LET refused(e) == [error |-> e, summarized |-> FALSE, chunks_used |-> 0,
                       total_chunks |-> 0, text_length |-> 0]
        chunks == IF title = "paper" THEN data ELSE <<>>
        combined == CombineChunks(chunks, DefaultMaxLength)
    IN IF role \notin {"scientist", "manager"} THEN refused("role")
       ELSE IF title = "" THEN refused("empty title")
       ELSE IF data = <<>> THEN refused("not available")
       ELSE IF chunks = <<>> THEN refused("not found")
       ELSE [error |-> "none", summarized |-> TRUE, chunks_used |-> Len(chunks),
             total_chunks |-> Len(chunks), text_length |-> combined.length]

\* generate_paper_summary(req) with CHUNKS_DATA = data: the error returned
\* ("none": the summary answer), whether a summarizer was called, and the
\* chunks_used and text_length of the answer.
GeneratePaperSummary(role, title, data) ==
    LET refused(e) == [error |-> e, summarized |-> FALSE, chunks_used |-> 0,
                       total_chunks |-> 0, text_length |-> 0]
        chunks == IF title = "paper" THEN data ELSE <<>>
        combined == CombineChunks(chunks, DefaultMaxLength)
    IN IF role \notin {"scientist", "manager"} THEN refused("role")
       ELSE IF title = "" THEN refused("empty title")
       ELSE IF data = <<>> THEN refused("not available")
       ELSE IF chunks = <<>> THEN refused("not found")
       ELSE IF combined.length = 0 THEN refused("no readable content")
       ELSE [error |-> "none", summarized |-> TRUE, chunks_used |-> Len(chunks),
             total_chunks |-> Len(chunks), text_length |-> combined.length]

NoSave == [valid |-> FALSE, sys |-> NewRag]

\* No application object (the run is of a library or of a chatbot of AI/).
NoApp == [is |-> None]

\* ------------------------------------------------ NASAInference
\* NASAInference.__init__: no model, no RAG system.
NewInference == [is |-> "NASAInference", model |-> None, rag_system |-> None]

\* max_length of the get_context call in generate_response.
InferenceMaxLength == 1500

\* What ./rag_system may hold when load_rag_system runs: nothing, a complete
\* save of a set-up system, or a save that stopped after two artifacts.
InferenceDirs ==
    {EmptyDir}
    \cup {SaveSystem(SetupRag(NewRag, DefaultConfig, f).sys, EmptyDir, stop) :
            f \in {g \in Corpora : Len(g.lines) > 0}, stop \in {2, 4}}

\* load_rag_system: [sys, dir, err].  self.rag_system is assigned before the
\* load or the set-up, so it stays set when either raises.
LoadRagSystem(cfg, file, dir) ==
    IF dir # EmptyDir
    THEN LET r == LoadSystem(NewRag, dir)
         IN [sys |-> r.sys, dir |-> dir, err |-> r.err]
    ELSE LET r == SetupRag(NewRag, cfg, file)
         IN IF r.err # "none" THEN [sys |-> r.sys, dir |-> dir, err |-> r.err]
            ELSE [sys |-> r.sys, dir |-> SaveSystem(r.sys, dir, 4), err |-> "none"]

\* ------------------------------------------------ app_lightweight
\* The module globals: summarizer, embedding_model, faiss_index, chunks, all
\* None at import.  last_load records how the last load_models ended.
NoChunks == [is |-> None, items |-> <<>>]

NewLightweight ==
    [is |-> "app_lightweight", summarizer |-> None, embedding_model |-> None,
     faiss_index |-> NoIndex, chunks |-> NoChunks, last_load |-> "none"]

\* top_k of both searches behind a chat answer.
AppTopK == 8

\* What ./rag_system may hold when an application loads it: nothing, a
\* complete save, or a save that stopped after the index over what was there.
AppCorpora == {FileOf(<<"plant", "bone">>), FileOf(<<"bone", "plant", "solar">>)}

AppSaves == {SaveSystem(SetupRag(NewRag, DefaultConfig, f).sys, EmptyDir, 4) :
                f \in AppCorpora}

AppDirs ==
    {EmptyDir} \cup AppSaves
    \cup {SaveSystem(SetupRag(NewRag, DefaultConfig, f).sys, d, 2) :
            d \in {EmptyDir} \cup AppSaves, f \in AppCorpora}

\* load_models: the globals are assigned one by one; an exception ends the
\* function and leaves the ones assigned so far.  [app, err].
LoadModels(a, dir, pipeline_ok) ==
    LET failed(g, e) == [app |-> [g EXCEPT !.last_load = "failed"], err |-> e]
        a1 == [a EXCEPT !.summarizer = "pipeline"]
        a2 == [a1 EXCEPT !.embedding_model = "all-MiniLM-L6-v2"]
        a3 == [a2 EXCEPT !.faiss_index = ReadIndex(dir.index)]
        a4 == [a3 EXCEPT !.chunks = [is |-> "list", items |-> dir.chunks.chunks]]
    IN IF ~pipeline_ok THEN failed(a, "OSError")
       ELSE IF dir.index = NoIndexFile THEN failed(a2, "RuntimeError")
       ELSE IF ~dir.chunks.exists THEN failed(a3, "FileNotFoundError")
       ELSE [app |-> [a4 EXCEPT !.last_load = "ok"], err |-> "none"]

\* The loop of app_lightweight.search_context: every hit but the placeholders.
RECURSIVE AppFormat(_, _)
AppFormat(hits, items) ==
    IF hits = <<>> THEN <<>>
    ELSE (IF Head(hits).idx # -1
          THEN <<[text |-> PyItem(items, Head(hits).idx).text,
                  source |-> PyItem(items, Head(hits).idx).source,
                  section |-> PyItem(items, Head(hits).idx).section,
                  score |-> Head(hits).score]>>
          ELSE <<>>)
         \o AppFormat(Tail(hits), items)

\* app_lightweight.search_context(query, top_k): [failed, results].  failed
\* says that a component was missing or that an exception was caught; the
\* function returns the list only.
AppSearchContext(a, build, query, top_k) ==
    IF a.embedding_model = None \/ a.faiss_index = NoIndex \/ a.chunks = NoChunks
    THEN [failed |-> TRUE, results |-> <<>>]
    ELSE LET Formatted(hits) ==
                 IF \E i \in 1..Len(hits) :
                       hits[i].idx # -1 /\ ~PyInRange(a.chunks.items, hits[i].idx)
                 THEN [failed |-> TRUE, results |-> <<>>]
                 ELSE [failed |-> FALSE, results |-> AppFormat(hits, a.chunks.items)]
             Searched(q) ==
                 IF Len(q) # a.faiss_index.d \/ (top_k = 0 /\ build.k0 = "assert")
                 THEN [failed |-> TRUE, results |-> <<>>]
                 ELSE Formatted(IndexSearch(a.faiss_index, q, build.ties, top_k))
         IN Searched(Encode(a.embedding_model, query))

\* app_lightweight.chat_interface(message): the kind of reply, whether a
\* search was made for it, and what the sources search returned.
AppChatInterface(a, build, message) ==
    IF a.faiss_index = NoIndex \/ a.chunks.items = <<>>
    THEN [reply |-> "not loaded", searched |-> FALSE, failed |-> FALSE,
          results |-> <<>>]
    ELSE IF message = ""
    THEN [reply |-> "enter a question", searched |-> FALSE, failed |-> FALSE,
          results |-> <<>>]
    ELSE LET Reply(sources) ==
                 [reply |-> IF sources.results = <<>> THEN "no information"
                            ELSE "answer",
                  searched |-> TRUE, failed |-> sources.failed,
                  results |-> sources.results]
         IN Reply(AppSearchContext(a, build, message, AppTopK))

\* ------------------------------------------------ final_gradio_app
\* FinalNASAApp before setup_ai has run.
NewFinalApp == [is |-> "FinalNASAApp", ai |-> None, last_load |-> "none"]

\* FinalNASAApp.chat_interface(message) on the HybridNASAAI h.
FinalChatInterface(a, h, build, message) ==
    IF a.ai = None
    THEN [reply |-> "not available", searched |-> FALSE, failed |-> FALSE,
          results |-> <<>>]
    ELSE IF message = ""
    THEN [reply |-> "enter a question", searched |-> FALSE, failed |-> FALSE,
          results |-> <<>>]
    ELSE LET Reply(r) ==
                 [reply |-> IF r.err = "none" THEN "answer" ELSE "error",
                  searched |-> TRUE, failed |-> r.err # "none",
                  results |-> r.sources]
         IN Reply(Chat(h, build, message))

\* The prompt generate_response builds: with a Context section if the
\* context is a non-empty string.
CreatePrompt(context_length) ==
    IF context_length > 0 THEN "context" ELSE "question"

\* generate_response(query, use_rag): [err, prompt].  Without a model it
\* raises; an exception in get_context is caught and reported in the reply.
GenerateResponse(inf, sys, cfg, build, query, use_rag) ==
    IF inf.model = None THEN [err |-> "ValueError", prompt |-> "none"]
    ELSE LET Response(got) ==
                 IF got.err # "none" THEN [err |-> "caught", prompt |-> "none"]
                 ELSE [err |-> "none", prompt |-> CreatePrompt(got.length)]
         IN Response(IF use_rag /\ inf.rag_system # None
                     THEN GetContext(sys, cfg, build, query, InferenceMaxLength)
                     ELSE [err |-> "none", parts |-> <<>>, length |-> 0])

\* ------------------------------------------------ cursor-back/synergy_service.py
\* A field that is None, or holds a value.
Unset == <<>>

Holding(v) == <<v>>

MaxProjects == 3

\* TfidfVectorizer(min_df=3): a term is kept if that many texts contain it.
MinDf == 3

\* similarity_threshold = 0.3, in hundredths.
SimilarityThreshold == 30

\* The data files: none, or a CSV of projects whose text is the title alone,
\* a title being one word or empty; with or without a Domain column.
ProjectTitles == {"plant", "bone", ""}

Domains == {"Plants", "Bone & Skeletal"}

NoCsv == [exists |-> FALSE, has_domain |-> FALSE, rows |-> <<>>]

CsvRows(has_domain) ==
    [Title : ProjectTitles, Domain : IF has_domain THEN Domains ELSE {"absent"}]

TaskbookFiles ==
    {NoCsv} \cup
    UNION {{[exists |-> TRUE, has_domain |-> d, rows |-> r] :
               r \in SeqsUpTo(CsvRows(d), MaxProjects)} : d \in BOOLEAN}

\* extract_domain(title) of load_data, on the titles above.
ExtractDomain(title) ==
    CASE title = "plant" -> "Plants"
      [] title = "bone" -> "Bone & Skeletal"
      [] OTHER -> "General Biology"

\* CrossDomainSynergyAgent() after __init__.  processed_texts is the Title
\* column of df, row for row.
NewSynergyAgent ==
    [is |-> "CrossDomainSynergyAgent", df |-> Unset, similarity_matrix |-> Unset,
     synergy_pairs |-> Unset, domain_stats |-> Unset, summary_stats |-> Unset,
     is_initialized |-> FALSE, last_refresh |-> "none"]

\* load_data(file_path): [ok, agent].  read_csv raises on a missing file
\* before df is assigned; rows of empty text are dropped.
SynergyLoadData(a, file) ==
    IF ~file.exists THEN [ok |-> FALSE, agent |-> a]
    ELSE LET filled == [i \in 1..Len(file.rows) |->
                          [Title |-> file.rows[i].Title,
                           Domain |-> IF file.has_domain THEN file.rows[i].Domain
                                      ELSE ExtractDomain(file.rows[i].Title)]]
             kept == SelectSeq(filled, LAMBDA row : row.Title # "")
         IN [ok |-> TRUE, agent |-> [a EXCEPT !.df = Holding(kept)]]

\* The vocabulary fit_transform keeps: the terms of at least min_df texts.
Vocabulary(df) ==
    {t \in {df[i].Title : i \in 1..Len(df)} :
        Cardinality({i \in 1..Len(df) : df[i].Title = t}) >= MinDf}

\* cosine_similarity of the TF-IDF rows, in hundredths: the row of a
\* one-word text is the unit vector of its word, or zero if the word is not
\* in the vocabulary.
CosineSimilarity(df) ==
    [i \in 1..Len(df) |-> [j \in 1..Len(df) |->
        IF df[i].Title = df[j].Title /\ df[i].Title \in Vocabulary(df)
        THEN 100 ELSE 0]]

\* compute_tfidf_and_similarity(): [ok, agent].  fit_transform raises when
\* no term is left; the exception is caught.
ComputeTfidfAndSimilarity(a) ==
    IF a.df = Unset \/ a.df[1] = <<>> THEN [ok |-> FALSE, agent |-> a]
    ELSE IF Vocabulary(a.df[1]) = {} THEN [ok |-> FALSE, agent |-> a]
    ELSE [ok |-> TRUE,
          agent |-> [a EXCEPT !.similarity_matrix = Holding(CosineSimilarity(a.df[1]))]]

\* The pairs (i, j), i < j, in the order of the two loops.
RECURSIVE PairsFrom(_, _, _)
PairsFrom(i, j, n) ==
    IF i >= n THEN <<>>
    ELSE IF j > n THEN PairsFrom(i + 1, i + 2, n)
    ELSE <<[i |-> i, j |-> j]>> \o PairsFrom(i, j + 1, n)

\* identify_synergy_pairs(): [ret, agent].  The kept pairs all have score
\* 1.0 here, so the stable sort by score leaves them in loop order.
IdentifySynergyPairs(a) ==
    IF a.similarity_matrix = Unset THEN [ret |-> <<>>, agent |-> a]
    ELSE LET df == a.df[1]
             sim == a.similarity_matrix[1]
             hit == SelectSeq(PairsFrom(1, 2, Len(df)),
                        LAMBDA p : /\ sim[p.i][p.j] >= SimilarityThreshold
                                   /\ df[p.i].Domain # df[p.j].Domain)
             pairs == [k \in 1..Len(hit) |->
                         [Project_A |-> hit[k].i, Domain_A |-> df[hit[k].i].Domain,
                          Project_B |-> hit[k].j, Domain_B |-> df[hit[k].j].Domain,
                          Similarity_Score |-> sim[hit[k].i][hit[k].j]]]
         IN [ret |-> pairs, agent |-> [a EXCEPT !.synergy_pairs = Holding(pairs)]]

\* groupby('Domain') visits the domains in sorted order.
DomainOrder == <<"Bone & Skeletal", "General Biology", "Plants">>

RECURSIVE InsertByCount(_, _)
InsertByCount(s, x) ==
    IF s = <<>> THEN <<x>>
    ELSE IF Head(s).Project_Count >= x.Project_Count
         THEN <<Head(s)>> \o InsertByCount(Tail(s), x)
         ELSE <<x>> \o s

\* sorted(domain_stats, key=Project_Count, reverse=True), a stable sort.
RECURSIVE SortedByCount(_, _)
SortedByCount(rest, acc) ==
    IF rest = <<>> THEN acc
    ELSE SortedByCount(Tail(rest), InsertByCount(acc, Head(rest)))

\* analyze_domain_statistics(): [ret, agent].
AnalyzeDomainStatistics(a) ==
    IF a.df = Unset THEN [ret |-> <<>>, agent |-> a]
    ELSE LET df == a.df[1]
             pairs == a.synergy_pairs[1]
             groups == SelectSeq(DomainOrder,
                           LAMBDA d : \E i \in 1..Len(df) : df[i].Domain = d)
             stats == [g \in 1..Len(groups) |->
                 [Domain |-> groups[g],
                  Project_Count |->
                      Cardinality({i \in 1..Len(df) : df[i].Domain = groups[g]}),
                  Synergy_Count |->
                      Cardinality({k \in 1..Len(pairs) :
                          \/ pairs[k].Domain_A = groups[g]
                          \/ pairs[k].Domain_B = groups[g]})]]
             sorted == SortedByCount(stats, <<>>)
         IN [ret |-> sorted, agent |-> [a EXCEPT !.domain_stats = Holding(sorted)]]

\* get_summary_statistics(): [ret, agent]; ret is the dict, Unset for {}.
\* The timestamp of the dict is left out.
GetSummaryStatistics(a) ==
    IF a.df = Unset \/ a.synergy_pairs = Unset THEN [ret |-> Unset, agent |-> a]
    ELSE LET df == a.df[1]
             stats == [total_projects |-> Len(df),
                       total_domains |->
                           Cardinality({df[i].Domain : i \in 1..Len(df)}),
                       total_synergies |-> Len(a.synergy_pairs[1])]
         IN [ret |-> Holding(stats),
             agent |-> [a EXCEPT !.summary_stats = Holding(stats)]]

\* refresh_analysis(file_path): [ret, agent].  The five steps are joined by
\* `and`: each runs only if the value of the one before is true, and a list
\* or dict is true if it is not empty.  last_refresh records how far the
\* refresh came: whether the file loaded and the matrix was computed.
RefreshAnalysis(a, file) ==
    LET reset == [a EXCEPT !.is_initialized = FALSE]
        l == SynergyLoadData(reset, file)
        c == ComputeTfidfAndSimilarity(l.agent)
        p == IdentifySynergyPairs(c.agent)
        d == AnalyzeDomainStatistics(p.agent)
        s == GetSummaryStatistics(d.agent)
    IN IF ~l.ok
       THEN [ret |-> FALSE, agent |-> [l.agent EXCEPT !.last_refresh = "not loaded"]]
       ELSE IF ~c.ok
       THEN [ret |-> FALSE, agent |-> [c.agent EXCEPT !.last_refresh = "no matrix"]]
       ELSE IF p.ret = <<>>
       THEN [ret |-> FALSE, agent |-> [p.agent EXCEPT !.last_refresh = "analysed"]]
       ELSE IF d.ret = <<>>
       THEN [ret |-> FALSE, agent |-> [d.agent EXCEPT !.last_refresh = "analysed"]]
       ELSE IF s.ret = Unset
       THEN [ret |-> FALSE, agent |-> [s.agent EXCEPT !.last_refresh = "analysed"]]
       ELSE [ret |-> TRUE,
             agent |-> [s.agent EXCEPT !.is_initialized = TRUE,
                                       !.last_refresh = "analysed"]]

\* get_synergy_analysis(): [success, synergies].
GetSynergyAnalysis(a) ==
    IF ~a.is_initialized THEN [success |-> FALSE, synergies |-> Unset]
    ELSE [success |-> TRUE, synergies |-> a.synergy_pairs]

\* The callers that may run setup() on the one NASARAGSystem at the same time,
\* and the step of setup() each is about to run.
Rebuilders == {"setup_a", "setup_b"}

NoRebuild == [pc |-> [t \in Rebuilders |-> "idle"], live |-> NewRag]

Init ==
    /\ prog \in {"caller", "persist", "hybrid_nasa_ai", "main", "rebuild",
                 "inference", "app_lightweight", "final_gradio_app",
                 "synergy_service"} \cup Chatbots
    /\ faiss \in IF prog \in {"main", "persist", "rebuild", "inference",
                              "app_lightweight", "final_gradio_app",
                              "synergy_service"}
                THEN {CHOOSE b \in FaissBuilds : b.k0 = "assert"}
                ELSE FaissBuilds
    /\ config \in IF prog \in {"caller", "persist"} THEN Configs ELSE {DefaultConfig}
    /\ papersFile \in IF prog \in {"hybrid_nasa_ai", "main", "app_lightweight",
                                   "final_gradio_app"}
                     THEN {NoFile}
                     ELSE IF prog = "synergy_service" THEN TaskbookFiles
                     ELSE CorporaFor(prog)
    /\ edits = 0
    /\ rag = NewRag
    /\ ragDir \in IF prog = "hybrid_nasa_ai" THEN HybridDirs
                 ELSE IF prog = "inference" THEN InferenceDirs
                 ELSE IF prog \in {"app_lightweight", "final_gradio_app"} THEN AppDirs
                 ELSE {EmptyDir}
    /\ bot = NewBot
    /\ aiDir = EmptyAiDir
    /\ hyb = NewHybrid
    /\ saved = NoSave
    /\ rebuild = NoRebuild
    /\ app = CASE prog = "inference" -> NewInference
               [] prog = "app_lightweight" -> NewLightweight
               [] prog = "final_gradio_app" -> NewFinalApp
               [] prog = "synergy_service" -> NewSynergyAgent
               [] OTHER -> NoApp
    /\ out = Quiet

\* -- the calls a run of the NASARAGSystem makes.  A query's answer stays in
\* `out` until the caller has taken it; then the next call is made.
Answered ==
    out.op \in {"search", "get_context", "chat", "combine_chunks",
                "generate_paper_summary", "generate_response",
                "search_context", "chat_interface", "get_synergy_analysis"}

TakeAnswer ==
    /\ Answered
    /\ out' = Quiet
    /\ UNCHANGED <<prog, faiss, config, papersFile, edits, rag, ragDir, bot, aiDir,
                   hyb, saved, rebuild, app>>

RagFrame == UNCHANGED <<prog, faiss, config, papersFile, edits, bot, aiDir, hyb>>

Still == UNCHANGED <<saved, rebuild, app>>

CallLoadEmbeddingModel ==
    /\ prog = "caller"
    /\ ~Answered
    /\ rag' = LoadEmbeddingModel(rag, config)
    /\ out' = [op |-> "load_embedding_model", err |-> "none"]
    /\ UNCHANGED ragDir /\ RagFrame /\ Still

CallLoadData ==
    /\ prog = "caller"
    /\ ~Answered
    /\ rag' = LoadData(rag, papersFile)
    /\ out' = [op |-> "load_data", err |-> "none"]
    /\ UNCHANGED ragDir /\ RagFrame /\ Still

CallGenerateEmbeddings ==
    /\ prog = "caller"
    /\ ~Answered
    /\ rag' = GenerateEmbeddings(rag, config)
    /\ out' = [op |-> "generate_embeddings", err |-> "none"]
    /\ UNCHANGED ragDir /\ RagFrame /\ Still

CallCreateFaissIndex ==
    /\ prog = "caller"
    /\ ~Answered
    /\ LET r == CreateFaissIndex(rag, config)
       IN /\ rag' = r.sys
          /\ out' = [op |-> "create_faiss_index", err |-> r.err]
    /\ UNCHANGED ragDir /\ RagFrame /\ Still

CallSetup ==
    /\ prog \in {"caller", "persist"}
    /\ ~Answered
    /\ LET r == SetupRag(rag, config, papersFile)
       IN /\ rag' = r.sys
          /\ out' = [op |-> "setup", err |-> r.err]
    /\ UNCHANGED ragDir /\ RagFrame /\ Still

SearchTopKs == {Given(k) : k \in {0, 1, MaxTopK}} \cup {Default}

\* search written to keep the top_k it was given as the object's default.
CallSearch_StoresTopK ==
    /\ prog \in {"caller", "persist", "rebuild"}
    /\ ~Answered
    /\ \E query \in Queries,
          top_k \in IF prog = "caller" THEN SearchTopKs ELSE {Default} :
          LET r == RagSearch(rag, config, faiss, query, top_k)
          IN /\ out' = [op |-> "search", query |-> query, top_k |-> top_k,
                        err |-> r.err, results |-> r.results]
             /\ config' = IF top_k = Default THEN config
                          ELSE [config EXCEPT !.top_k_results = top_k[1]]
    /\ UNCHANGED <<rag, ragDir, prog, faiss, papersFile, edits, bot, aiDir, hyb>>
    /\ Still

\* A caller passes any top_k; the searches behind NASAInference.generate_response
\* (inference.py:82, through get_context) leave top_k out.
CallSearch ==
    /\ prog \in {"caller", "persist", "rebuild"}
    /\ ~Answered
    /\ \E query \in Queries,
          top_k \in IF prog = "caller" THEN SearchTopKs ELSE {Default} :
          LET r == RagSearch(rag, config, faiss, query, top_k)
          IN out' = [op |-> "search", query |-> query, top_k |-> top_k,
                     err |-> r.err, results |-> r.results]
    /\ UNCHANGED <<rag, ragDir>> /\ RagFrame /\ Still

Budgets == {0, 72, 143, 2000}

CallGetContext ==
    /\ prog = "caller"
    /\ ~Answered
    /\ \E query \in Queries, max_length \in Budgets :
          LET Returned(r) == [op |-> "get_context", query |-> query,
                              max_length |-> max_length, err |-> r.err,
                              parts |-> r.parts, length |-> r.length]
          IN out' = Returned(GetContext(rag, config, faiss, query, max_length))
    /\ UNCHANGED <<rag, ragDir>> /\ RagFrame /\ Still

CallSaveSystem ==
    /\ prog = "persist"
    /\ ~Answered
    /\ \E stop \in 1..4 :
          /\ ragDir' = SaveSystem(rag, ragDir, stop)
          /\ saved' = IF SaveWritten(rag, stop) = 4
                      THEN [valid |-> TRUE, sys |-> rag] ELSE NoSave
          /\ out' = [op |-> "save_system",
                     err |-> IF SaveWritten(rag, stop) = 4 THEN "none" ELSE "stopped"]
    /\ UNCHANGED <<rag, rebuild, app>> /\ RagFrame

CallLoadSystem ==
    /\ prog = "persist"
    /\ ~Answered
    /\ LET r == LoadSystem(rag, ragDir)
       IN /\ rag' = r.sys
          /\ out' = [op |-> "load_system", err |-> r.err]
    /\ UNCHANGED ragDir /\ RagFrame /\ Still

\* A new process constructs a new NASARAGSystem (inference.load_rag_system).
NewRagObject ==
    /\ prog = "persist"
    /\ ~Answered
    /\ rag' = NewRag
    /\ out' = Quiet
    /\ UNCHANGED ragDir /\ RagFrame /\ Still

\* The corpus source is rewritten between runs.
EditCorpus ==
    /\ prog \in {"caller", "persist"} \cup Chatbots
    /\ ~Answered
    /\ edits < MaxEdits
    /\ papersFile' \in Corpora \ {papersFile}
    /\ edits' = edits + 1
    /\ out' = Quiet
    /\ UNCHANGED <<prog, faiss, config, rag, ragDir, bot, aiDir, hyb, saved, rebuild, app>>

\* -- setup() run by callers on their own threads.  Each step is one
\* statement of setup or create_faiss_index that assigns an attribute of the
\* shared object; nothing orders the steps of two callers or a search.
Rebuilding == \E t \in Rebuilders : rebuild.pc[t] # "idle"

RebuildFrame ==
    UNCHANGED <<prog, faiss, config, papersFile, edits, ragDir, bot, aiDir, hyb,
                saved, app>>

\* setup() is entered: load_embedding_model.
SetupEnter ==
    /\ prog = "rebuild"
    /\ ~Answered
    /\ \E t \in Rebuilders :
          /\ rebuild.pc[t] = "idle"
          /\ rebuild' = [pc |-> [rebuild.pc EXCEPT ![t] = "load_data"],
                         live |-> IF Rebuilding THEN rebuild.live ELSE rag]
    /\ rag' = LoadEmbeddingModel(rag, config)
    /\ out' = Quiet
    /\ RebuildFrame

\* self.chunks = data_loader.combined_chunks
SetupLoadData ==
    /\ prog = "rebuild"
    /\ ~Answered
    /\ \E t \in Rebuilders :
          /\ rebuild.pc[t] = "load_data"
          /\ rebuild' = [rebuild EXCEPT !.pc[t] = "generate_embeddings"]
    /\ rag' = LoadData(rag, papersFile)
    /\ out' = Quiet
    /\ RebuildFrame

\* self.embeddings = self.embedding_model.encode(texts)
SetupGenerateEmbeddings ==
    /\ prog = "rebuild"
    /\ ~Answered
    /\ \E t \in Rebuilders :
          /\ rebuild.pc[t] = "generate_embeddings"
          /\ rebuild' = [rebuild EXCEPT !.pc[t] = "create_faiss_index"]
    /\ rag' = GenerateEmbeddings(rag, config)
    /\ out' = Quiet
    /\ RebuildFrame

\* create_faiss_index up to self.index = faiss.IndexFlatIP(dimension): the new,
\* still empty index replaces the live one; shape[1] of an array without
\* rows raises and ends this setup().
SetupNewIndex ==
    /\ prog = "rebuild"
    /\ ~Answered
    /\ \E t \in Rebuilders :
          /\ rebuild.pc[t] = "create_faiss_index"
          /\ IF Len(rag.embeddings.rows) = 0
             THEN /\ rebuild' = [rebuild EXCEPT !.pc[t] = "idle"]
                  /\ rag' = rag
                  /\ out' = [op |-> "setup", err |-> "IndexError"]
             ELSE /\ rebuild' = [rebuild EXCEPT !.pc[t] = "index_add"]
                  /\ rag' = [rag EXCEPT !.index =
                                NewIndex(config.index_type, Len(rag.embeddings.rows[1]))]
                  /\ out' = Quiet
    /\ RebuildFrame

\* self.index.add(self.embeddings.astype('float32')): the rows go to whatever
\* index self.index names now; setup() returns.
SetupIndexAdd ==
    /\ prog = "rebuild"
    /\ ~Answered
    /\ \E t \in Rebuilders :
          /\ rebuild.pc[t] = "index_add"
          /\ rebuild' = [rebuild EXCEPT !.pc[t] = "idle"]
    /\ rag' = IndexAddRows(rag)
    /\ out' = [op |-> "setup", err |-> "none"]
    /\ RebuildFrame

\* -- a chatbot of AI/
BotFrame ==
    UNCHANGED <<prog, faiss, config, papersFile, edits, rag, ragDir, hyb, saved, rebuild, app>>

ChatbotTopKs == {0, 1, MaxTopK, 5}

\* The process starts: NASAChatbot() or the import of the module.
StartChatbot ==
    /\ prog \in Chatbots
    /\ ~Answered
    /\ LET r == BotStart(prog, papersFile, aiDir)
       IN /\ bot' = r.bot
          /\ aiDir' = r.dir
          /\ out' = [op |-> "start", err |-> r.err]
    /\ BotFrame

\* /search, /chat: the handler's search.
CallBotSearch ==
    /\ prog \in Chatbots
    /\ ~Answered
    /\ bot.started
    /\ \E query \in Queries, top_k \in ChatbotTopKs :
          LET r == BotSearch(prog, bot, faiss, query, top_k)
          IN out' = [op |-> "search", query |-> query, top_k |-> Given(top_k),
                     err |-> r.err, results |-> r.results]
    /\ UNCHANGED <<bot, aiDir>> /\ BotFrame

\* The embeddings cache is removed so that the next start embeds again.
RemoveEmbeddingsPkl ==
    /\ prog \in Chatbots
    /\ ~Answered
    /\ aiDir.embeddings # NoArray
    /\ aiDir' = [aiDir EXCEPT !.embeddings = NoArray]
    /\ out' = Quiet
    /\ UNCHANGED bot /\ BotFrame

\* -- hybrid_nasa_ai
HybridFrame ==
    UNCHANGED <<prog, faiss, config, papersFile, edits, rag, ragDir, bot, aiDir,
                saved, rebuild, app>>

\* -- cursor-back/main.py: generate_paper_summary's call of combine_chunks
CallCombineChunks ==
    /\ prog = "main"
    /\ ~Answered
    /\ \E chunks \in SeqsUpTo(MainTexts, MaxCombine), max_length \in MainBudgets :
          LET r == CombineChunks(chunks, max_length)
          IN out' = [op |-> "combine_chunks", chunks |-> chunks,
                     max_length |-> max_length, length |-> r.length,
                     used |-> r.used]
    /\ UNCHANGED <<prog, faiss, config, papersFile, edits, rag, ragDir, bot, aiDir,
                   hyb, saved, rebuild, app>>

\* POST /api/paper-summaries
CallGeneratePaperSummary ==
    /\ prog = "main"
    /\ ~Answered
    /\ \E role \in Roles, title \in Titles,
          data \in SeqsUpTo(MainTexts, MaxCombine) :
          LET r == GeneratePaperSummary(role, title, data)
          IN out' = [op |-> "generate_paper_summary", role |-> role,
                     title |-> title, data |-> data, error |-> r.error,
                     summarized |-> r.summarized, chunks_used |-> r.chunks_used,
                     total_chunks |-> r.total_chunks,
                     text_length |-> r.text_length]
    /\ UNCHANGED <<prog, faiss, config, papersFile, edits, rag, ragDir, bot, aiDir,
                   hyb, saved, rebuild, app>>

\* -- inference.py
InferenceFrame ==
    UNCHANGED <<prog, faiss, config, papersFile, edits, bot, aiDir, hyb, saved,
                rebuild>>

\* load_model: the trained model is at model_path, or FileNotFoundError.
CallLoadModel ==
    /\ prog = "inference"
    /\ ~Answered
    /\ app.model = None
    /\ \E found \in BOOLEAN :
          /\ app' = [app EXCEPT !.model = IF found THEN "loaded" ELSE None]
          /\ out' = [op |-> "load_model",
                     err |-> IF found THEN "none" ELSE "FileNotFoundError"]
    /\ UNCHANGED <<rag, ragDir>> /\ InferenceFrame

CallLoadRagSystem ==
    /\ prog = "inference"
    /\ ~Answered
    /\ app.rag_system = None
    /\ LET r == LoadRagSystem(config, papersFile, ragDir)
       IN /\ app' = [app EXCEPT !.rag_system = "NASARAGSystem"]
          /\ rag' = r.sys
          /\ ragDir' = r.dir
          /\ out' = [op |-> "load_rag_system", err |-> r.err]
    /\ InferenceFrame

CallGenerateResponse ==
    /\ prog = "inference"
    /\ ~Answered
    /\ \E query \in Queries, use_rag \in BOOLEAN :
          LET Returned(r) == [op |-> "generate_response", query |-> query,
                              use_rag |-> use_rag, err |-> r.err,
                              prompt |-> r.prompt]
          IN out' = Returned(GenerateResponse(app, rag, config, faiss, query,
                                              use_rag))
    /\ UNCHANGED <<rag, ragDir, app>> /\ InferenceFrame

\* -- app_lightweight.py
AppFrame ==
    UNCHANGED <<prog, faiss, config, papersFile, rag, bot, aiDir, saved, rebuild>>

\* ./rag_system is rewritten between page loads.
ReplaceRagDir ==
    /\ prog \in {"app_lightweight", "final_gradio_app"}
    /\ ~Answered
    /\ edits < MaxEdits
    /\ ragDir' \in AppDirs \ {ragDir}
    /\ edits' = edits + 1
    /\ out' = Quiet
    /\ UNCHANGED <<app, hyb>> /\ AppFrame

\* A page load: demo.load(load_models).
CallLoadModels ==
    /\ prog = "app_lightweight"
    /\ ~Answered
    /\ \E pipeline_ok \in BOOLEAN :
          LET r == LoadModels(app, ragDir, pipeline_ok)
          IN /\ app' = r.app
             /\ out' = [op |-> "load_models", err |-> r.err]
    /\ UNCHANGED <<ragDir, edits, hyb>> /\ AppFrame

\* search_context called by generate_enhanced_response or another caller.
CallAppSearchContext ==
    /\ prog = "app_lightweight"
    /\ ~Answered
    /\ \E query \in Queries :
          LET Returned(r) == [op |-> "search_context", query |-> query,
                              failed |-> r.failed, results |-> r.results]
          IN out' = Returned(AppSearchContext(app, faiss, query, AppTopK))
    /\ UNCHANGED <<app, ragDir, edits, hyb>> /\ AppFrame

CallAppChatInterface ==
    /\ prog = "app_lightweight"
    /\ ~Answered
    /\ \E message \in Queries :
          LET Returned(r) == [op |-> "chat_interface", message |-> message,
                              reply |-> r.reply, searched |-> r.searched,
                              failed |-> r.failed, results |-> r.results]
          IN out' = Returned(AppChatInterface(app, faiss, message))
    /\ UNCHANGED <<app, ragDir, edits, hyb>> /\ AppFrame

\* -- final_gradio_app.py
\* FinalNASAApp(): setup_ai constructs the HybridNASAAI; an exception of its
\* load_components leaves self.ai None.
StartFinalApp ==
    /\ prog = "final_gradio_app"
    /\ app.last_load = "none"
    /\ out = Quiet
    /\ LET r == LoadComponents(ragDir)
       IN /\ hyb' = r.hyb
          /\ app' = [app EXCEPT !.ai = IF r.err = "none" THEN "HybridNASAAI" ELSE None,
                                !.last_load = IF r.err = "none" THEN "ok" ELSE "failed"]
          /\ out' = [op |-> "setup_ai", err |-> r.err]
    /\ UNCHANGED <<ragDir, edits>> /\ AppFrame

CallFinalChatInterface ==
    /\ prog = "final_gradio_app"
    /\ app.last_load # "none"
    /\ ~Answered
    /\ \E message \in HybridQueries :
          LET Returned(r) == [op |-> "chat_interface", message |-> message,
                              reply |-> r.reply, searched |-> r.searched,
                              failed |-> r.failed, results |-> r.results]
          IN out' = Returned(FinalChatInterface(app, hyb, faiss, message))
    /\ UNCHANGED <<app, ragDir, edits, hyb>> /\ AppFrame

\* -- synergy_service.py
SynergyFrame ==
    UNCHANGED <<prog, faiss, config, papersFile, edits, rag, ragDir, bot, aiDir,
                hyb, saved, rebuild>>

\* refresh_analysis(), called by initialize_synergy_service when the module
\* is loaded and by whoever refreshes the analysis later.
CallRefreshAnalysis ==
    /\ prog = "synergy_service"
    /\ ~Answered
    /\ LET r == RefreshAnalysis(app, papersFile)
       IN /\ app' = r.agent
          /\ out' = [op |-> "refresh_analysis", ret |-> r.ret]
    /\ SynergyFrame

CallGetSynergyAnalysis ==
    /\ prog = "synergy_service"
    /\ ~Answered
    /\ LET r == GetSynergyAnalysis(app)
       IN out' = [op |-> "get_synergy_analysis", success |-> r.success,
                  synergies |-> r.synergies]
    /\ UNCHANGED app /\ SynergyFrame

\* HybridNASAAI()
StartHybrid ==
    /\ prog = "hybrid_nasa_ai"
    /\ ~hyb.loaded
    /\ out = Quiet
    /\ LET r == LoadComponents(ragDir)
       IN /\ hyb' = r.hyb
          /\ out' = [op |-> "load_components", err |-> r.err]
    /\ HybridFrame

CallChat ==
    /\ prog = "hybrid_nasa_ai"
    /\ hyb.loaded
    /\ ~Answered
    /\ \E query \in HybridQueries :
          LET Returned(r) == [op |-> "chat", query |-> query, err |-> r.err,
                              answer |-> r.answer, sources |-> r.sources]
          IN out' = Returned(Chat(hyb, faiss, query))
    /\ UNCHANGED hyb /\ HybridFrame

Next ==
    \/ CallLoadEmbeddingModel
    \/ CallLoadData
    \/ CallGenerateEmbeddings
    \/ CallCreateFaissIndex
    \/ CallSetup
    \/ CallSearch
    \/ CallGetContext
    \/ CallSaveSystem
    \/ CallLoadSystem
    \/ NewRagObject
    \/ EditCorpus
    \/ TakeAnswer
    \/ StartChatbot
    \/ CallBotSearch
    \/ RemoveEmbeddingsPkl
    \/ StartHybrid
    \/ CallChat
    \/ CallCombineChunks
    \/ CallGeneratePaperSummary
    \/ CallLoadModel
    \/ CallLoadRagSystem
    \/ CallGenerateResponse
    \/ ReplaceRagDir
    \/ CallLoadModels
    \/ CallAppSearchContext
    \/ CallAppChatInterface
    \/ StartFinalApp
    \/ CallFinalChatInterface
    \/ CallRefreshAnalysis
    \/ CallGetSynergyAnalysis
    \/ SetupEnter
    \/ SetupLoadData
    \/ SetupGenerateEmbeddings
    \/ SetupNewIndex
    \/ SetupIndexAdd

Spec == Init /\ [][Next]_vars

\* ------------------------------------------------------------ properties
RagRuns == {"caller", "persist"}

\* The k a recorded search asked for.
AskedK == IF out.top_k = Default THEN config.top_k_results ELSE out.top_k[1]

ScoresAtLeast(results, min_score) ==
    \A i \in 1..Len(results) : results[i].score >= min_score

\* C1 - Threshold correctness: every result a search operation returns
\* (NASARAGSystem.search, NASAChatbot.search and search_chunks,
\* HybridNASAAI.search_context) has a score at or above the configured
\* minimum similarity; no result below it is ever returned.
C1_ThresholdCorrectness ==
    /\ (out.op = "search" /\ out.err = "none")
          => ScoresAtLeast(out.results, config.similarity_threshold)
    /\ (out.op = "chat" /\ out.err = "none")
          => /\ ScoresAtLeast(out.answer, config.similarity_threshold)
             /\ ScoresAtLeast(out.sources, config.similarity_threshold)

\* C2 - Context budget: the string the context assembler returns
\* (get_context, combine_chunks) is at most max_length long, separators
\* counted, and a budget of 0 gives the empty string.
C2_ContextBudget ==
    /\ (out.op = "get_context" /\ out.err = "none") => out.length <= out.max_length
    /\ out.op = "combine_chunks" => out.length <= out.max_length
    /\ (out.op \in {"get_context", "combine_chunks"} /\ out.max_length = 0)
          => out.length = 0

\* C3 - Alignment at all times: whenever a NASARAGSystem has an index,
\* index.ntotal = len(chunks) and the i-th indexed vector is the embedding of
\* chunks[i].text.
C3_AlignmentAtAllTimes ==
    (prog \in RagRuns /\ rag.index # NoIndex)
      => /\ NTotal(rag.index) = Len(rag.chunks)
         /\ \E m \in Models :
               rag.index.xb = EncodeAll(m, ChunkTexts(rag.chunks))

\* C4 - Alignment detected at load: a load_system, or a chatbot start-up
\* reading existing artifacts, that finishes leaves len(chunks) = index.ntotal;
\* a difference makes the load fail.
C4_AlignmentDetectedAtLoad ==
    /\ (out.op = "load_system" /\ out.err = "none")
          => Len(rag.chunks) = NTotal(rag.index)
    /\ (out.op = "start" /\ out.err = "none")
          => Len(bot.chunks) = NTotal(bot.index)

\* C5 - Rank contiguity: the ranks of a result list of length M that
\* NASAChatbot.search or search_chunks returns are 1..M in list order.
C5_RankContiguity ==
    (prog \in Chatbots /\ out.op = "search" /\ out.err = "none")
      => \A i \in 1..Len(out.results) : out.results[i].rank = i

\* The object a recorded search ran on had its model and its index.
SearchReady ==
    IF prog \in RagRuns THEN rag.index # NoIndex /\ rag.embedding_model # None
    ELSE bot.started /\ bot.model # None

\* C6 - Top-k bound: a search with top_k = k returns at most k results, and
\* a search with top_k = 0 on a ready system returns the empty list, not an
\* error.
C6_TopKBound ==
    /\ (out.op = "search" /\ out.err = "none") => Len(out.results) <= AskedK
    /\ (out.op = "search" /\ SearchReady /\ AskedK = 0)
          => out.err = "none" /\ out.results = <<>>

C8_RoundTrip ==
    (out.op = "load_system" /\ out.err = "none" /\ saved.valid)
      => \A q \in Queries, k \in SearchTopKs, build \in FaissBuilds :
            RagSearch(rag, config, build, q, k)
              = RagSearch(saved.sys, config, build, q, k)

\* A system saved right after setup is loaded and finds chunks for a query.
C8_Witness ==
    /\ out.op = "load_system" /\ out.err = "none" /\ saved.valid
    /\ saved.sys = SetupRag(NewRag, config, papersFile).sys
    /\ \E q \in Queries :
          /\ RagSearch(saved.sys, config, faiss, q, Default).results # <<>>
          /\ RagSearch(rag, config, faiss, q, Default)
               = RagSearch(saved.sys, config, faiss, q, Default)

NoPlaceholder(results) ==
    \A i \in 1..Len(results) : results[i].score \notin {FltMax, -FltMax}

\* C9 - k larger than the corpus: a search whose top_k exceeds the number of
\* indexed chunks raises no error and returns at most the indexed chunks;
\* the index's "no hit" slot (position -1) never produces a result.
C9_KLargerThanCorpus ==
    /\ (out.op = "search" /\ SearchReady
           /\ AskedK > NTotal(IF prog \in RagRuns THEN rag.index ELSE bot.index))
          => /\ out.err = "none"
             /\ NoPlaceholder(out.results)
             /\ Len(out.results)
                  <= NTotal(IF prog \in RagRuns THEN rag.index ELSE bot.index)
    /\ (out.op = "chat" /\ out.err = "none")
          => NoPlaceholder(out.answer) /\ NoPlaceholder(out.sources)

\* The index holds what the model makes of the chunks, row by row.
OneBuild(model, index, chunks) ==
    index.xb = EncodeAll(model, ChunkTexts(chunks))

\* C10 - Mismatch refusal: a load that finishes has an index built by the
\* model that embeds the queries, and embeddings, index and chunks of one
\* build; a chat is never answered on another mix.
C10_MismatchRefusal ==
    /\ (out.op = "load_system" /\ out.err = "none")
          => /\ OneBuild(rag.embedding_model, rag.index, rag.chunks)
             /\ rag.embeddings.rows = rag.index.xb
    /\ (out.op \in {"load_components", "chat"} /\ out.err = "none")
          => OneBuild(hyb.embedding_model, hyb.faiss_index, hyb.chunks)
\* C11 - Empty query: a search whose query is empty after trimming is
\* reported as an error or returns the empty list, never a non-empty result.
C11_EmptyQuery ==
    (out.op = "search" /\ out.query = "" /\ out.err = "none")
      => out.results = <<>>

\* The hits index.search gives the recorded query on the NASARAGSystem.
RagHits ==
    IndexSearch(rag.index, QueryRow(Encode(rag.embedding_model, out.query)),
                faiss.ties,
                IF out.op = "search" THEN AskedK ELSE config.top_k_results)

\* No chunk of the index's top_k reaches the threshold for the recorded query.
NoHitReaches ==
    \A i \in 1..Len(RagHits) :
        RagHits[i].idx # -1 => RagHits[i].score < config.similarity_threshold

\* C12 - No match is not an error: on an initialized NASARAGSystem, when
\* no hit reaches the threshold, search returns the empty list without an
\* exception and get_context returns the empty string.
C12_NoMatchNotAnError ==
    (prog \in RagRuns /\ out.op \in {"search", "get_context"}
       /\ (out.op = "search" => AskedK > 0)
       /\ SearchReady /\ NoHitReaches)
      => /\ out.err = "none"
         /\ out.op = "search" => out.results = <<>>
         /\ out.op = "get_context" => out.length = 0

\* C13 - Empty corpus: building the index over an empty chunk list
\* succeeds with ntotal = 0, and every later search returns the empty list
\* rather than raising.
C13_EmptyCorpus ==
    /\ (prog \in RagRuns /\ out.op \in {"setup", "create_faiss_index"}
          /\ rag.chunks = <<>> /\ rag.embeddings.rows = <<>>)
          => /\ out.err = "none"
             /\ rag.index # NoIndex
             /\ NTotal(rag.index) = 0
    /\ (prog \in RagRuns /\ out.op = "search" /\ rag.embedding_model # None
          /\ rag.chunks = <<>> /\ rag.embeddings = Array(<<>>))
          => out.err = "none" /\ out.results = <<>>

\* C14 - Missing corpus is fatal: when the corpus file does not exist,
\* load_data and setup fail and the failure reaches the caller; no chunk list
\* is installed from the missing source.
C14_MissingCorpusFatal ==
    (prog \in RagRuns /\ out.op \in {"load_data", "setup"} /\ ~papersFile.exists)
      => out.err = "FileNotFoundError"
\* C15 - Bad records fail alone: one malformed record (a line that is not
\* JSON, a record without the text field) is dropped and never aborts the
\* load; every well-formed record before and after it is loaded, in
\* load_papers_data and in the chatbots' start-up.
C15_BadRecordsFailAlone ==
    /\ (prog \in RagRuns /\ out.op = "load_data" /\ papersFile.exists)
          => ChunkTexts(rag.chunks) = WellFormed(papersFile.lines)
    /\ (prog \in Chatbots /\ out.op = "start" /\ papersFile.exists
          /\ WellFormed(papersFile.lines) # <<>>)
          => /\ out.err = "none"
             /\ [i \in 1..Len(bot.chunks) |-> bot.chunks[i].chunk]
                  = WellFormed(papersFile.lines)
\* C16 - Snapshot isolation during rebuild: while a further setup() is in
\* progress, a search is answered entirely from the snapshot that was live
\* when the rebuild began; it never sees the chunks of one build with the
\* index of another, nor an index that is not yet filled.
C16_SnapshotIsolation ==
    (prog = "rebuild" /\ out.op = "search" /\ Rebuilding
       /\ rebuild.live.index # NoIndex /\ rebuild.live.embedding_model # None)
      => LET was == RagSearch(rebuild.live, config, faiss, out.query, out.top_k)
         IN out.err = was.err /\ out.results = was.results

\* C17 - No concurrent rebuilds: at most one rebuild runs at any time; a
\* setup() requested while one is running does not start until it is over.
C17_NoConcurrentRebuilds ==
    Cardinality({t \in Rebuilders : rebuild.pc[t] # "idle"}) <= 1

\* Whether the results are in descending order of score.
ScoreDescending(results) ==
    \A i, j \in 1..Len(results) : i < j => results[i].score >= results[j].score

\* Whether results of equal score are in the order of their chunks' positions.
TiesByPosition(results, chunks) ==
    \A i, j \in 1..Len(results) :
        (i < j /\ results[i].score = results[j].score)
            => \E a, b \in 1..Len(chunks) :
                   a <= b /\ chunks[a].text = results[i].text
                          /\ chunks[b].text = results[j].text

\* Whether the results are in the order of relevance: nearest the query first.
NearestFirst(results, model, query) ==
    \A i, j \in 1..Len(results) :
        i < j => SqDist(Encode(model, results[i].text), Encode(model, query))
                     <= SqDist(Encode(model, results[j].text), Encode(model, query))

\* C18: the list search returns is in descending order of score, the higher
\* score being the more relevant chunk, and results of equal score are in the
\* order of their chunks' positions, for IndexFlatIP and for IndexFlatL2.
C18_ResultOrder ==
    (prog \in RagRuns /\ out.op = "search" /\ out.err = "none" /\ SearchReady)
        => /\ ScoreDescending(out.results)
           /\ NearestFirst(out.results, rag.embedding_model, out.query)
           /\ TiesByPosition(out.results, rag.chunks)

\* How many of the hits are chunks (not placeholders) at or above min_score.
Reaching(hits, min_score) ==
    Cardinality({i \in 1..Len(hits) :
                    hits[i].idx # -1 /\ hits[i].score >= min_score})

\* The hits of the index behind the answer of a recorded chat.
HybridHits ==
    IndexSearch(hyb.faiss_index, Encode(hyb.embedding_model, out.query),
                faiss.ties, AnswerTopK)

\* C19: search drops only hits below min_score: every hit among the index's
\* top_k whose score is at or above min_score, a score equal to min_score
\* included, is in the list returned (NASARAGSystem.search with the
\* configured threshold, HybridNASAAI.search_context with 0.3).
C19_ThresholdCompleteness ==
    /\ (prog \in RagRuns /\ out.op = "search" /\ out.err = "none")
          => Len(out.results) >= Reaching(RagHits, config.similarity_threshold)
    /\ (prog = "hybrid_nasa_ai" /\ out.op = "chat" /\ out.err = "none")
          => Len(out.answer) >= Reaching(HybridHits, 30)

\* The results behind a recorded get_context, and the lengths of their parts.
ContextResults == RagSearch(rag, config, faiss, out.query, Default).results

ContextLens == [i \in 1..Len(ContextResults) |-> PartLen(i - 1, ContextResults[i])]

\* The positions of the chunks combine_chunks does not skip, in order.
RECURSIVE Eligible(_, _)
Eligible(chunks, i) ==
    IF i > Len(chunks) THEN <<>>
    ELSE (IF CleanChunkText(chunks[i]) >= 50 THEN <<i>> ELSE <<>>)
         \o Eligible(chunks, i + 1)

\* len() of the cleaned chunks at the given positions joined by one space.
CombinedLen(chunks, positions) ==
    JoinLen([i \in 1..Len(positions) |-> CleanChunkText(chunks[positions[i]])], 1)

\* C20: the context assembler takes the chunks whole and in rank order: what
\* it returns is made of a prefix of the eligible chunks, every chunk of the
\* prefix fits the budget (separators counted), and the first chunk left out
\* is one that would exceed it; no chunk after that one is included.
C20_PrefixPacking ==
    /\ (out.op = "get_context" /\ out.err = "none")
          => LET n == Len(out.parts)
             IN /\ n <= Len(ContextResults)
                /\ out.parts = SubSeq(ContextResults, 1, n)
                /\ JoinLen(SubSeq(ContextLens, 1, n), 2) <= out.max_length
                /\ n < Len(ContextResults)
                      => JoinLen(SubSeq(ContextLens, 1, n + 1), 2) > out.max_length
    /\ out.op = "combine_chunks"
          => LET all == Eligible(out.chunks, 1)
                 n == Len(out.used)
             IN /\ n <= Len(all)
                /\ out.used = SubSeq(all, 1, n)
                /\ out.length = CombinedLen(out.chunks, out.used)
                /\ out.length <= out.max_length
                /\ n < Len(all)
                      => CombinedLen(out.chunks, SubSeq(all, 1, n + 1)) > out.max_length

\* The eligible positions of combine_chunks' input up to position j.
EligibleUpTo(chunks, j) == SelectSeq(Eligible(chunks, 1), LAMBDA p : p <= j)

\* C21: combine_chunks never includes a chunk whose cleaned text is shorter
\* than the minimum usefulness length, and a skipped chunk does not end the
\* iteration: a later chunk that is long enough and fits the budget together
\* with the long-enough chunks before it is in the result.
C21_MinimumLengthSkip ==
    out.op = "combine_chunks"
        => /\ \A i \in 1..Len(out.used) :
                 CleanChunkText(out.chunks[out.used[i]]) >= 50
           /\ \A j \in 1..Len(out.chunks) :
                 (/\ CleanChunkText(out.chunks[j]) >= 50
                  /\ \E s \in 1..(j - 1) : CleanChunkText(out.chunks[s]) < 50
                  /\ CombinedLen(out.chunks, EligibleUpTo(out.chunks, j))
                        <= out.max_length)
                    => \E i \in 1..Len(out.used) : out.used[i] = j

\* C22: the chunks reported as used for an assembled context are the chunks
\* whose text is in it: chunks_used in generate_paper_summary's answer is the
\* number of chunks combine_chunks included, not the number it was given.
C22_ProvenanceMatchesContent ==
    (out.op = "generate_paper_summary" /\ out.error = "none")
        => out.chunks_used = Len(CombineChunks(out.data, DefaultMaxLength).used)

\* The context get_context gives the recorded generate_response.
ResponseContext == GetContext(rag, config, faiss, out.query, InferenceMaxLength)

\* C23: an empty context is "no usable context": when combine_chunks returns
\* the empty string, generate_paper_summary answers an error and calls no
\* summarizer; when get_context returns the empty string, generate_response
\* builds no prompt with a Context section.
C23_EmptyContextHandled ==
    /\ (/\ out.op = "generate_paper_summary"
        /\ out.role \in {"scientist", "manager"}
        /\ out.title = "paper" /\ out.data # <<>>
        /\ CombineChunks(out.data, DefaultMaxLength).length = 0)
          => out.error # "none" /\ ~out.summarized
    /\ (/\ out.op = "generate_response" /\ out.err = "none"
        /\ out.use_rag /\ app.rag_system # None
        /\ ResponseContext.length = 0)
          => out.prompt = "question"

C23_Witness ==
    /\ out.op = "generate_response" /\ out.err = "none"
    /\ out.use_rag /\ app.rag_system # None
    /\ rag.chunks # <<>> /\ rag.index # NoIndex
    /\ ResponseContext.err = "none" /\ ResponseContext.length = 0
    /\ out.prompt = "question"

\* What search_context returns for a search that matched nothing: the list
\* its loop builds from placeholders only.
NoMatchValue == AppFormat(<<NoHit(NewIndex("IndexFlatIP", 2))>>, <<>>)

\* C24: a search that fails (a component not loaded, an exception in the
\* embedding or in the index lookup) is reported to its caller differently
\* from a search that found no matching chunk: search_context of
\* app_lightweight does not return the same value in both cases.
C24_FailureDistinguishable ==
    (out.op = "search_context" /\ out.failed) => out.results # NoMatchValue

\* C25: after a load of the components that failed, no query is served until
\* a load has completed: chat_interface makes no search in that state, also
\* when the failed load was a reload after an earlier successful load.
C25_NoServingAfterFailedLoad ==
    (out.op = "chat_interface" /\ app.last_load = "failed")
        => ~out.searched

\* C26: after NASAChatbot.__init__ has returned, the embedding model and the
\* index are both loaded, whether or not embeddings.pkl and faiss_index.bin
\* existed, and search on a non-empty query does not raise "Model or index
\* not initialized".
C26_ModelLoadedOnEveryStart ==
    /\ (prog = "nasa_chatbot" /\ bot.started)
          => bot.model # None /\ bot.index # NoIndex
    /\ (prog = "nasa_chatbot" /\ out.op = "search" /\ out.query # "")
          => out.err # "ValueError"

\* C27: NASARAGSystem.search and get_context leave chunks, embeddings, index,
\* embedding_model, top_k and threshold as they were, for every query and
\* every outcome (results, the empty list, a raised error).
C27_QueriesDoNotMutate ==
    [][(prog \in RagRuns \cup {"rebuild"} /\ out'.op \in {"search", "get_context"})
          => (rag' = rag /\ config' = config)]_vars

C27_Witness ==
    /\ prog \in RagRuns
    /\ out.op \in {"search", "get_context"}
    /\ out.err = "none"
    /\ rag.index # NoIndex /\ rag.chunks # <<>>
    /\ out.op = "search" => out.results # <<>>

\* C28: every chunk of the loaded corpus has a text that is non-empty after
\* trimming whitespace, whichever loader read it (load_papers_data with its
\* length window, load_taskbook_data, NASAChatbot._load_data).
C28_NonEmptyChunkText ==
    /\ \A i \in 1..Len(rag.chunks) : TrimmedLen(rag.chunks[i].text) > 0
    /\ \A i \in 1..Len(bot.chunks) : TrimmedLen(bot.chunks[i].chunk) > 0

\* Whether a vector has unit length (a zero vector has nothing to normalize).
IsUnit(v) == Dot(v, v) \in {0, 100}

\* C29: with index_type IndexFlatIP, every vector in the index of a
\* NASARAGSystem and every query vector handed to index.search is the
\* L2-normalized one, so that every score search returns lies in [-1, 1].
C29_NormalizedVectors ==
    (prog \in RagRuns /\ rag.index # NoIndex /\ rag.index.type = "IndexFlatIP")
        => /\ \A i \in 1..NTotal(rag.index) : IsUnit(rag.index.xb[i])
           /\ (out.op = "search" /\ rag.embedding_model # None)
                 => IsUnit(QueryRow(Encode(rag.embedding_model, out.query)))
           /\ (out.op = "search" /\ out.err = "none")
                 => \A i \in 1..Len(out.results) :
                       out.results[i].score >= -100 /\ out.results[i].score <= 100

\* C30: refresh_analysis returns True and leaves is_initialized True whenever
\* the data file loaded and the similarity matrix was computed, also when no
\* cross-domain pair reaches the threshold; get_synergy_analysis then answers
\* success, with an empty list of synergies if there is no pair.
C30_RefreshOutcome ==
    (prog = "synergy_service" /\ app.last_refresh = "analysed")
        => /\ out.op = "refresh_analysis" => (out.ret /\ app.is_initialized)
           /\ out.op = "get_synergy_analysis"
                 => /\ out.success
                    /\ out.synergies = app.synergy_pairs

====
